---- MODULE Spec2Model ----
(***************************************************************************)
(* Model of the discharge-list extraction engine                           *)
(* (server/src/services/pdfParser.ts).                                     *)
(*                                                                         *)
(* A JavaScript string is a sequence of one-character strings.  Operators  *)
(* named after String.prototype methods take and return the 0-based        *)
(* indices of the source; regular expressions are written out as the       *)
(* scans they perform.  The value null is Null, a tuple that is no string. *)
(* Confidence is kept in thousandths (1.0 is 1000), so that the final      *)
(* Math.round(confidence * 100) / 100 is a real rounding step.             *)
(*                                                                         *)
(* The discharges API (server/src/routes/discharges.ts) is modelled with   *)
(* its two tables and its PATCH handler, one step per database call.       *)
(***************************************************************************)
EXTENDS Integers, Sequences, FiniteSets, TLC

VARIABLES text, pc, result, raw, once, twice, discharges, dischargeEdits, patch,
          left, right, leftResult, rightResult

vars == <<text, pc, result, raw, once, twice, discharges, dischargeEdits, patch,
          left, right, leftResult, rightResult>>

\* two texts and their parses, kept beside the parse of their concatenation
joinVars == <<left, right, leftResult, rightResult>>

\* the state of the discharges API: the two tables and the PATCH requests in flight
apiVars == <<discharges, dischargeEdits, patch>>

(***************************************************************************)
(* Characters                                                              *)
(***************************************************************************)
Digits == {"0", "1", "2", "3", "4", "5", "6", "7", "8", "9"}

UpperLetters == <<"A","B","C","D","E","F","G","H","I","J","K","L","M","N","O","P","Q","R","S","T","U","V","W","X","Y","Z">>

LowerLetters == <<"a","b","c","d","e","f","g","h","i","j","k","l","m","n","o","p","q","r","s","t","u","v","w","x","y","z">>

UpperSet == {UpperLetters[i] : i \in 1..26}

LowerSet == {LowerLetters[i] : i \in 1..26}

\* \s of a regular expression, String.prototype.trim: the whitespace of the inputs
Whitespace == {" ", "\t"}

\* \w of a regular expression
WordChars == Digits \cup UpperSet \cup LowerSet \cup {"_"}

ToLowerMap == [c \in UpperSet |-> LowerLetters[CHOOSE i \in 1..26 : UpperLetters[i] = c]]

ToUpperMap == [c \in LowerSet |-> UpperLetters[CHOOSE i \in 1..26 : LowerLetters[i] = c]]

LowerChar(c) == IF c \in UpperSet THEN ToLowerMap[c] ELSE c

UpperChar(c) == IF c \in LowerSet THEN ToUpperMap[c] ELSE c

Null == <<"null">>

\* JavaScript falsiness of a string-or-null value: null and "" are falsy
Falsy(v) == v = Null \/ v = <<>>

\* A regular-expression match is the tuple of the whole match and its groups
\* (at least two entries, so it is never Null); m[k] of the source is Group(m, k)
Group(m, k) == m[k + 1]

Min(S) == CHOOSE x \in S : \A y \in S : x <= y

Max(S) == CHOOSE x \in S : \A y \in S : x >= y

(***************************************************************************)
(* String.prototype methods                                                *)
(***************************************************************************)
Clamp(i, n) == IF i < 0 THEN 0 ELSE IF i > n THEN n ELSE i

\* s.substring(a, b): indices clamped to [0, length] and swapped when a > b
Substring(s, a, b) ==
  LET x == Clamp(a, Len(s))
      y == Clamp(b, Len(s))
  IN  IF x <= y THEN SubSeq(s, x + 1, y) ELSE SubSeq(s, y + 1, x)

\* s.substring(a)
SubstringFrom(s, a) == Substring(s, a, Len(s))

\* whether p occurs in s at 0-based offset i
MatchesAt(s, i, p) ==
  /\ i >= 0
  /\ i + Len(p) <= Len(s)
  /\ \A k \in 1..Len(p) : s[i + k] = p[k]

\* the same, ignoring letter case (the i flag)
MatchesAtCI(s, i, p) ==
  /\ i >= 0
  /\ i + Len(p) <= Len(s)
  /\ \A k \in 1..Len(p) : LowerChar(s[i + k]) = LowerChar(p[k])

\* s.indexOf(p, from): the first offset >= from where p occurs, or -1
IndexOf(s, p, from) ==
  LET hits == {i \in Clamp(from, Len(s))..(Len(s) - Len(p)) : MatchesAt(s, i, p)}
  IN  IF hits = {} THEN -1 ELSE Min(hits)

\* s.lastIndexOf(p)
LastIndexOf(s, p) ==
  LET hits == {i \in 0..(Len(s) - Len(p)) : MatchesAt(s, i, p)}
  IN  IF hits = {} THEN -1 ELSE Max(hits)

Includes(s, p) == IndexOf(s, p, 0) >= 0

EndsWith(s, p) == MatchesAt(s, Len(s) - Len(p), p)

ToLowerCase(s) == [i \in 1..Len(s) |-> LowerChar(s[i])]

ToUpperCase(s) == [i \in 1..Len(s) |-> UpperChar(s[i])]

\* s.trim()
Trim(s) ==
  LET keep == {i \in 1..Len(s) : s[i] \notin Whitespace}
  IN  IF keep = {} THEN <<>> ELSE SubSeq(s, Min(keep), Max(keep))

\* the length of the run of whitespace that starts at offset i (the greedy \s*)
WsRun(s, i) ==
  LET stops == {j \in i..(Len(s) - 1) : s[j + 1] \notin Whitespace}
  IN  IF stops = {} THEN Len(s) - i ELSE Min(stops) - i

\* whether the n characters from offset i are all digits (\d{n})
DigitsAt(s, i, n) ==
  /\ i >= 0
  /\ i + n <= Len(s)
  /\ \A k \in 1..n : s[i + k] \in Digits

\* Split cutting at the first separator only
Split_First(s, sep) ==
  LET idx == IndexOf(s, <<sep>>, 0)
  IN  IF idx = -1 THEN <<s>>
      ELSE <<Substring(s, 0, idx), SubstringFrom(s, idx + 1)>>

RECURSIVE Split(_, _)
\* s.split(sep) for a one-character separator
Split(s, sep) ==
  LET idx == IndexOf(s, <<sep>>, 0)
  IN  IF idx = -1 THEN <<s>>
      ELSE <<Substring(s, 0, idx)>> \o Split(SubstringFrom(s, idx + 1), sep)

(***************************************************************************)
(* Vocabularies                                                            *)
(***************************************************************************)
DISPOSITIONS ==
  << <<"H","o","m","e">>, <<"S","N","F">>, <<"H","H","S">>, <<"R","e","h","a","b">>, <<"A","M","A">>, <<"H","o","s","p","i","c","e">>, <<"L","T","A","C">>, <<"D","e","c","e","a","s","e","d">> >>

INSURANCE_PATTERNS ==
  << <<"B","C","B","S">>, <<"B","l","u","e"," ","C","r","o","s","s">>, <<"A","e","t","n","a">>, <<"A","e","t","n","a"," ","H","e","a","l","t","h">>, <<"H","u","m","a","n","a">>, <<"H","u","m","a","n","a"," ","H","e","a","l","t","h">>,
     <<"U","n","i","t","e","d","H","e","a","l","t","h","c","a","r","e">>, <<"U","n","i","t","e","d">>, <<"C","i","g","n","a">>, <<"M","e","d","i","c","a","r","e">>, <<"M","e","d","i","c","a","i","d">>,
     <<"S","e","l","f"," ","P","a","y">>, <<"S","e","l","f","-","P","a","y">>, <<"T","r","i","c","a","r","e">>, <<"K","a","i","s","e","r">> >>

Unknown == <<"U","n","k","n","o","w","n">>

UnknownHospital == <<"U","n","k","n","o","w","n"," ","H","o","s","p","i","t","a","l">>

(***************************************************************************)
(* Line normalisation (parseDischargeText, the map over text.split)        *)
(***************************************************************************)
RECURSIVE ReplacePipesFrom(_, _)
\* l.replace(/\s*\|\s*/g, ' ') from offset i on
ReplacePipesFrom(l, i) ==
  IF i >= Len(l) THEN <<>>
  ELSE LET w == WsRun(l, i)
       IN  IF i + w < Len(l) /\ l[i + w + 1] = "|"
           THEN <<" ">> \o ReplacePipesFrom(l, i + w + 1 + WsRun(l, i + w + 1))
           ELSE <<l[i + 1]>> \o ReplacePipesFrom(l, i + 1)

\* CollapseFrom without the replacement: runs of whitespace are kept
CollapseFrom_Keep(l, i) == SubstringFrom(l, i)

RECURSIVE CollapseFrom(_, _)
\* l.replace(/\s{2,}/g, ' ') from offset i on
CollapseFrom(l, i) ==
  IF i >= Len(l) THEN <<>>
  ELSE LET w == WsRun(l, i)
       IN  IF w >= 2
           THEN <<" ">> \o CollapseFrom(l, i + w)
           ELSE <<l[i + 1]>> \o CollapseFrom(l, i + 1)

NormalizeLine(l) == Trim(CollapseFrom(ReplacePipesFrom(l, 0), 0))

NonEmpty(l) == Len(l) > 0

NormalizedLines(t) ==
  LET split == Split(t, "\n")
      mapped == [i \in 1..Len(split) |-> NormalizeLine(split[i])]
  IN  SelectSeq(mapped, NonEmpty)

(***************************************************************************)
(* Header extraction                                                       *)
(***************************************************************************)
IsHeaderLine(l) ==
  /\ Includes(ToLowerCase(l), <<"h","o","s","p","i","t","a","l">>)
  /\ Includes(ToLowerCase(l), <<"d","i","s","c","h","a","r","g","e","s">>)

\* FindHeaderLine taking the last marked line instead of the first
FindHeaderLine_Last(lines) ==
  LET hits == {i \in 1..Len(lines) : IsHeaderLine(lines[i])}
  IN  IF hits = {} THEN Null ELSE lines[Max(hits)]

\* lines.find(IsHeaderLine): the first such line, or Null (undefined)
FindHeaderLine(lines) ==
  LET hits == {i \in 1..Len(lines) : IsHeaderLine(lines[i])}
  IN  IF hits = {} THEN Null ELSE lines[Min(hits)]

\* The tail  \s+Discharges\s+for\s+(.+)$  (i flag) tried at offset k: the offset
\* where group 2 starts, or -1.  Each \s+ is followed by a non-blank literal, so it
\* takes its whole run; the last one gives a blank back to (.+) only when nothing
\* else is left for it.
HeaderTailAt(l, k) ==
  LET w1 == WsRun(l, k)
      d  == k + w1
      w2 == WsRun(l, d + 10)
      f  == d + 10 + w2
      w3 == WsRun(l, f + 3)
      g  == f + 3 + w3
  IN  IF /\ w1 >= 1
         /\ MatchesAtCI(l, d, <<"d","i","s","c","h","a","r","g","e","s">>)
         /\ w2 >= 1
         /\ MatchesAtCI(l, f, <<"f","o","r">>)
         /\ w3 >= 1
      THEN IF g < Len(l) THEN g
           ELSE IF w3 >= 2 THEN g - 1
           ELSE -1
      ELSE -1

\* headerLine.match(/^(.+?)\s+Discharges\s+for\s+(.+)$/i): Null, or the two groups.
\* The lazy (.+?) takes the fewest characters (at least one) that let the rest match.
HeaderMatch(l) ==
  LET ks == {k \in 1..Len(l) : HeaderTailAt(l, k) >= 0}
  IN  IF ks = {} THEN Null
      ELSE LET k == Min(ks)
           IN  << l, Substring(l, 0, k), SubstringFrom(l, HeaderTailAt(l, k)) >>

\* HeaderFields with hospitalName initialised to '' instead of 'Unknown Hospital'
HeaderFields_EmptyDefault(lines) ==
  LET headerLine == FindHeaderLine(lines)
      headerMatch == IF headerLine = Null THEN Null ELSE HeaderMatch(headerLine)
  IN  IF headerMatch = Null
      THEN [hospitalName |-> <<>>, reportDate |-> <<>>]
      ELSE [hospitalName |-> Trim(Group(headerMatch, 1)),
            reportDate |-> Trim(Group(headerMatch, 2))]

HeaderFields(lines) ==
  LET headerLine == FindHeaderLine(lines)
      headerMatch == IF headerLine = Null THEN Null ELSE HeaderMatch(headerLine)
  IN  IF headerMatch = Null
      THEN [hospitalName |-> UnknownHospital, reportDate |-> <<>>]
      ELSE [hospitalName |-> Trim(Group(headerMatch, 1)),
            reportDate |-> Trim(Group(headerMatch, 2))]

(***************************************************************************)
(* Name normaliser                                                         *)
(***************************************************************************)
\* the alternation (MD|DO|PA|NP|PA-C|RN|BSN), in the order the regex tries it
CREDENTIALS == << <<"M","D">>, <<"D","O">>, <<"P","A">>, <<"N","P">>, <<"P","A","-","C">>, <<"R","N">>, <<"B","S","N">> >>

\* trimmed.match(/^([^,]+),\s+(MD|DO|PA|NP|PA-C|RN|BSN)\s+(.+)$/i): Null or the
\* three groups.  [^,]+ ends at the first comma; each \s+ takes its whole run, the
\* last one giving a blank back to (.+) only when nothing else is left for it.
WrongOrderMatch(s) ==
  LET comma == IndexOf(s, <<",">>, 0)
      w1 == WsRun(s, comma + 1)
      c  == comma + 1 + w1
      Rest(i) == LET n  == Len(CREDENTIALS[i])
                     w2 == WsRun(s, c + n)
                     g  == c + n + w2
                 IN  IF ~MatchesAtCI(s, c, CREDENTIALS[i]) \/ w2 < 1 THEN -1
                     ELSE IF g < Len(s) THEN g
                     ELSE IF w2 >= 2 THEN g - 1
                     ELSE -1
      ok == {i \in 1..Len(CREDENTIALS) : Rest(i) >= 0}
  IN  IF comma < 1 \/ w1 < 1 \/ ok = {} THEN Null
      ELSE LET i == Min(ok)
           IN  << s, Substring(s, 0, comma),
                   Substring(s, c, c + Len(CREDENTIALS[i])),
                   SubstringFrom(s, Rest(i)) >>

normalizeProviderName(r) ==
  IF Falsy(r) THEN <<>>
  ELSE LET trimmed == Trim(r)
           wrongOrder == WrongOrderMatch(trimmed)
       IN  IF wrongOrder # Null
           THEN Group(wrongOrder, 1) \o <<","," ">> \o Group(wrongOrder, 3)
                  \o <<" ">> \o ToUpperCase(Group(wrongOrder, 2))
           ELSE trimmed

(***************************************************************************)
(* Middle-segment splitter                                                 *)
(***************************************************************************)
\* SortedPatterns without the sort
SortedPatterns_Unsorted == INSURANCE_PATTERNS

\* [...INSURANCE_PATTERNS].sort((a, b) => b.length - a.length): Array.prototype.sort
\* is stable, so entries of equal length keep their order
SortedPatterns ==
  LET P == INSURANCE_PATTERNS
      Before(j, i) == Len(P[j]) > Len(P[i]) \/ (Len(P[j]) = Len(P[i]) /\ j < i)
      Rank(i) == Cardinality({j \in 1..Len(P) : Before(j, i)}) + 1
  IN  [r \in 1..Len(P) |-> P[CHOOSE i \in 1..Len(P) : Rank(i) = r]]

\* the alternation of /\b(MD|DO|PA|NP|RN)\b/i
NAME_CREDENTIALS == << <<"M","D">>, <<"D","O">>, <<"P","A">>, <<"N","P">>, <<"R","N">> >>

\* \b at offset i: exactly one of the characters on its two sides is a word character
WordBoundary(s, i) ==
  LET before == i >= 1 /\ i <= Len(s) /\ s[i] \in WordChars
      after  == i >= 0 /\ i < Len(s) /\ s[i + 1] \in WordChars
  IN  before # after

\* LooksLikeName without the word boundaries: /(MD|DO|PA|NP|RN)/i.test(s)
LooksLikeName_Substring(s) ==
  \E i \in 0..Len(s) : \E c \in 1..Len(NAME_CREDENTIALS) :
     MatchesAtCI(s, i, NAME_CREDENTIALS[c])

\* /\b(MD|DO|PA|NP|RN)\b/i.test(s)
LooksLikeName(s) ==
  \E i \in 0..Len(s) : \E c \in 1..Len(NAME_CREDENTIALS) :
     /\ MatchesAtCI(s, i, NAME_CREDENTIALS[c])
     /\ WordBoundary(s, i)
     /\ WordBoundary(s, i + Len(NAME_CREDENTIALS[c]))

\* x || null for a string x
OrNull(s) == IF s = <<>> THEN Null ELSE s

\* x || 'Unknown' for a string x
OrUnknown(s) == IF Falsy(s) THEN Unknown ELSE s

\* splitPcpAndInsurance without the credential test of its fallback
splitPcpAndInsurance_NoNameCheck(t) ==
  IF t = <<>> THEN [pcp |-> Null, ins |-> Unknown]
  ELSE LET sorted == SortedPatterns
           found == {k \in 1..Len(sorted) : IndexOf(t, sorted[k], 0) >= 0}
       IN  IF found # {}
           THEN LET pattern == sorted[Min(found)]
                    idx == IndexOf(t, pattern, 0)
                IN  [pcp |-> OrNull(Trim(Substring(t, 0, idx))), ins |-> pattern]
           ELSE [pcp |-> Null, ins |-> OrUnknown(Trim(t))]

splitPcpAndInsurance(t) ==
  IF t = <<>> THEN [pcp |-> Null, ins |-> Unknown]
  ELSE LET sorted == SortedPatterns
           found == {k \in 1..Len(sorted) : IndexOf(t, sorted[k], 0) >= 0}
       IN  IF found # {}
           THEN LET pattern == sorted[Min(found)]
                    idx == IndexOf(t, pattern, 0)
                IN  [pcp |-> OrNull(Trim(Substring(t, 0, idx))), ins |-> pattern]
           ELSE IF LooksLikeName(t)
           THEN [pcp |-> Trim(t), ins |-> Unknown]
           ELSE [pcp |-> Null, ins |-> OrUnknown(Trim(t))]

(***************************************************************************)
(* Row extractor                                                           *)
(***************************************************************************)
\* the offset of the first match of /EP\d{9}/ in l, or -1
EpicIdAt(l) ==
  LET hits == {i \in 0..(Len(l) - 11) : MatchesAt(l, i, <<"E","P">>) /\ DigitsAt(l, i + 2, 9)}
  IN  IF hits = {} THEN -1 ELSE Min(hits)

\* HasEpicId with the pattern /[A-Z]{2}\d{9}/ instead of /EP\d{9}/
HasEpicId_AnyLetters(l) ==
  \E i \in 0..(Len(l) - 11) :
     l[i + 1] \in UpperSet /\ l[i + 2] \in UpperSet /\ DigitsAt(l, i + 2, 9)

\* epicIdPattern.test(l)
HasEpicId(l) == EpicIdAt(l) >= 0

\* whether /\d{2}-\d{2}-\d{4}/ matches at offset i
DateAt(l, i) ==
  /\ DigitsAt(l, i, 2)
  /\ MatchesAt(l, i + 2, <<"-">>)
  /\ DigitsAt(l, i + 3, 2)
  /\ MatchesAt(l, i + 5, <<"-">>)
  /\ DigitsAt(l, i + 6, 4)

\* the offset of the first match of /(\d{2}-\d{2}-\d{4})/ in l, or -1
DateMatchAt(l) ==
  LET hits == {i \in 0..(Len(l) - 10) : DateAt(l, i)}
  IN  IF hits = {} THEN -1 ELSE Min(hits)

\* afterEpic.match(/^\s*\(missing\)\s*/i): Null, or the match with no group 1
MissingPhoneMatch(a) ==
  LET w == WsRun(a, 0)
  IN  IF MatchesAtCI(a, w, <<"(","m","i","s","s","i","n","g",")">>)
      THEN <<Substring(a, 0, w + 9 + WsRun(a, w + 9)), Null>>
      ELSE Null

\* afterEpic.match(/^\s*(\d{3}-\d{3}-\d{4})/)
FmtPhoneMatch(a) ==
  LET w == WsRun(a, 0)
  IN  IF /\ DigitsAt(a, w, 3)
         /\ MatchesAt(a, w + 3, <<"-">>)
         /\ DigitsAt(a, w + 4, 3)
         /\ MatchesAt(a, w + 7, <<"-">>)
         /\ DigitsAt(a, w + 8, 4)
      THEN <<Substring(a, 0, w + 12), Substring(a, w, w + 12)>>
      ELSE Null

\* the lookahead (?=\s|[A-Z]) at offset i
RawPhoneLookahead(a, i) ==
  i < Len(a) /\ a[i + 1] \in (Whitespace \cup UpperSet)

\* afterEpic.match(/^\s*(\d{10})(?=\s|[A-Z])/)
RawPhoneMatch(a) ==
  LET w == WsRun(a, 0)
  IN  IF DigitsAt(a, w, 10) /\ RawPhoneLookahead(a, w + 10)
      THEN <<Substring(a, 0, w + 10), Substring(a, w, w + 10)>>
      ELSE Null

\* FormatRawPhone with d.slice(3, 7) for the middle group
FormatRawPhone_BadSlice(d) ==
  Substring(d, 0, 3) \o <<"-">> \o Substring(d, 3, 7) \o <<"-">> \o SubstringFrom(d, 6)

\* `${d.slice(0, 3)}-${d.slice(3, 6)}-${d.slice(6)}`
FormatRawPhone(d) ==
  Substring(d, 0, 3) \o <<"-">> \o Substring(d, 3, 6) \o <<"-">> \o SubstringFrom(d, 6)

\* Step 3: the phone and the match the attending span skips past.
\* epicEndIdx is -1 without an identifier and at least 11 with one.
ExtractPhone(l, epicId) ==
  LET epicEndIdx == IF epicId # <<>> THEN IndexOf(l, epicId, 0) + Len(epicId) ELSE -1
  IN  IF epicEndIdx > 0
      THEN LET afterEpic == SubstringFrom(l, epicEndIdx)
               missingPhone == MissingPhoneMatch(afterEpic)
               fmtPhone == IF missingPhone = Null THEN FmtPhoneMatch(afterEpic) ELSE Null
               rawPhone == RawPhoneMatch(afterEpic)
           IN  IF fmtPhone # Null
               THEN [phoneNumber |-> Group(fmtPhone, 1), phoneMatch |-> fmtPhone]
               ELSE IF rawPhone # Null
               THEN [phoneNumber |-> FormatRawPhone(Group(rawPhone, 1)), phoneMatch |-> rawPhone]
               ELSE [phoneNumber |-> Null, phoneMatch |-> missingPhone]
      ELSE [phoneNumber |-> Null, phoneMatch |-> Null]

\* ExtractDisposition with lineEnd.includes(disp) instead of lineEnd.endsWith(disp)
ExtractDisposition_Anywhere(l) ==
  LET lineEnd == Trim(l)
      hits == {i \in 1..Len(DISPOSITIONS) : Includes(lineEnd, DISPOSITIONS[i])}
  IN  IF hits = {} THEN <<>> ELSE DISPOSITIONS[Min(hits)]

\* Step 4: the first DISPOSITIONS entry the trimmed line ends with, or ''
ExtractDisposition(l) ==
  LET lineEnd == Trim(l)
      hits == {i \in 1..Len(DISPOSITIONS) : EndsWith(lineEnd, DISPOSITIONS[i])}
  IN  IF hits = {} THEN <<>> ELSE DISPOSITIONS[Min(hits)]

\* ExtractName without the trim
ExtractName_Untrimmed(l, epicId) ==
  IF epicId # <<>> THEN Substring(l, 0, IndexOf(l, epicId, 0)) ELSE <<>>

\* Step 5: the text before the identifier, trimmed, or ''
ExtractName(l, epicId) ==
  IF epicId # <<>> THEN Trim(Substring(l, 0, IndexOf(l, epicId, 0))) ELSE <<>>

\* Step 6, first half: where the attending span starts
AttendingStart(l, epicEnd, phoneMatch) ==
  IF phoneMatch # Null
  THEN LET matchStr == IF Falsy(Group(phoneMatch, 1)) THEN Group(phoneMatch, 0) ELSE Group(phoneMatch, 1)
           phoneIdx == IndexOf(l, matchStr, epicEnd)
       IN  IF phoneIdx >= 0 THEN phoneIdx + Len(matchStr) ELSE epicEnd
  ELSE epicEnd

\* DropMissingPcp without the test for the absence marker
DropMissingPcp_Keep(pcp) == pcp

\* primaryCareProvider = pcp && pcp.toLowerCase().includes('missing') ? null : pcp
DropMissingPcp(pcp) ==
  IF ~Falsy(pcp) /\ Includes(ToLowerCase(pcp), <<"m","i","s","s","i","n","g">>) THEN Null ELSE pcp

\* Step 6: attending, PCP and insurance, before name normalisation
ExtractMiddle(l, epicId, dateIdx, dischargeDate, disposition, phoneMatch) ==
  IF dateIdx >= 0 /\ epicId # <<>>
  THEN LET epicEnd == IndexOf(l, epicId, 0) + Len(epicId)
           attendingStart == AttendingStart(l, epicEnd, phoneMatch)
           afterDate == SubstringFrom(l, dateIdx + Len(dischargeDate))
           beforeDisposition ==
             IF disposition # Unknown
             THEN Substring(afterDate, 0, LastIndexOf(afterDate, disposition))
             ELSE afterDate
           split == splitPcpAndInsurance(Trim(beforeDisposition))
       IN  [attendingPhysician |-> Trim(Substring(l, attendingStart, dateIdx)),
            primaryCareProvider |-> DropMissingPcp(split.pcp),
            insurance |-> split.ins]
  ELSE [attendingPhysician |-> <<>>, primaryCareProvider |-> Null, insurance |-> <<>>]

\* one `if (...) confidence -= p` of parseDischargeRow, in thousandths
Penalty(missing, p) == IF missing THEN p ELSE 0

\* InsurancePenalty taken on the insurance the record reports (`insurance || 'Unknown'`)
InsurancePenalty_Reported(insurance) == Penalty(OrUnknown(insurance) = Unknown, 100)

\* the penalty of `if (insurance === 'Unknown') confidence -= 0.1`
InsurancePenalty(insurance) == Penalty(insurance = Unknown, 100)

\* the penalty of `if (!phoneNumber) confidence -= 0.1`
PhonePenalty(phoneNumber) == Penalty(Falsy(phoneNumber), 100)

\* Math.round(x) of a value in thousandths: the nearest integer, ties upwards
MathRound(x) == ((x + 500) \div 1000) * 1000

\* FinalConfidence without the division by 100
FinalConfidence_NoDivide(confidence) ==
  LET rounded == MathRound(confidence * 100)
  IN  IF rounded > 0 THEN rounded ELSE 0

\* Math.max(0, Math.round(confidence * 100) / 100)
FinalConfidence(confidence) ==
  LET rounded == MathRound(confidence * 100) \div 100
  IN  IF rounded > 0 THEN rounded ELSE 0

\* step 7 of parseDischargeRow and its end: the provider names normalised, the
\* penalties and the record, from the fields steps 1 to 6 have extracted
RowRecord(line, epicId, dischargeDate, phone, found, name, middle) ==
  LET attendingPhysician == normalizeProviderName(middle.attendingPhysician)
      primaryCareProvider ==
        IF ~Falsy(middle.primaryCareProvider)
        THEN normalizeProviderName(middle.primaryCareProvider)
        ELSE middle.primaryCareProvider
      confidence == 1000 - Penalty(epicId = <<>>, 200)
                         - Penalty(dischargeDate = <<>>, 200)
                         - Penalty(found = <<>>, 100)
                         - Penalty(name = <<>>, 200)
                         - PhonePenalty(phone.phoneNumber)
                         - Penalty(Falsy(primaryCareProvider), 100)
                         - InsurancePenalty(middle.insurance)
  IN  [patientName |-> IF name = <<>> THEN Unknown ELSE name,
       epicId |-> epicId,
       phoneNumber |-> phone.phoneNumber,
       attendingPhysician |-> attendingPhysician,
       dischargeDate |-> dischargeDate,
       primaryCareProvider |-> primaryCareProvider,
       insurance |-> OrUnknown(middle.insurance),
       disposition |-> IF found = <<>> THEN Unknown ELSE found,
       confidence |-> FinalConfidence(confidence),
       rawText |-> line]

\* steps 1 to 6 of parseDischargeRow: the anchors and the spans between them
parseDischargeRow(line) ==
  LET epicIdx == EpicIdAt(line)
      epicId == IF epicIdx >= 0 THEN Substring(line, epicIdx, epicIdx + 11) ELSE <<>>
      dateIdx == DateMatchAt(line)
      dischargeDate == IF dateIdx >= 0 THEN Substring(line, dateIdx, dateIdx + 10) ELSE <<>>
      phone == ExtractPhone(line, epicId)
      found == ExtractDisposition(line)
      disposition == IF found = <<>> THEN Unknown ELSE found
      name == ExtractName(line, epicId)
      middle == ExtractMiddle(line, epicId, dateIdx, dischargeDate, disposition, phone.phoneMatch)
  IN  RowRecord(line, epicId, dischargeDate, phone, found, name, middle)

\* parseDischargeText extracting each row from the line as it was before normalisation
parseDischargeText_RawRows(t) ==
  LET lines == NormalizedLines(t)
      header == HeaderFields(lines)
      dataLines == SelectSeq(Split(t, "\n"), HasEpicId)
      records == [i \in 1..Len(dataLines) |-> parseDischargeRow(dataLines[i])]
  IN  [hospitalName |-> header.hospitalName,
       reportDate |-> header.reportDate,
       records |-> records,
       rawText |-> t]

parseDischargeText(t) ==
  LET lines == NormalizedLines(t)
      header == HeaderFields(lines)
      dataLines == SelectSeq(lines, HasEpicId)
      records == [i \in 1..Len(dataLines) |-> parseDischargeRow(dataLines[i])]
  IN  [hospitalName |-> header.hospitalName,
       reportDate |-> header.reportDate,
       records |-> records,
       rawText |-> t]

(***************************************************************************)
(* Discharges API: PATCH /api/discharges/:id, edit with lineage            *)
(***************************************************************************)
EDITABLE_FIELDS ==
  { "patientName", "epicId", "phoneNumber", "attendingPhysician",
    "dischargeDate", "primaryCareProvider", "insurance", "disposition" }

\* the columns of a discharge row that the model follows
DischargeFields == EDITABLE_FIELDS \cup {"status"}

Undefined == <<"undefined">>

DigitString == <<"0","1","2","3","4","5","6","7","8","9">>

DigitValue(c) == (CHOOSE n \in 1..10 : DigitString[n] = c) - 1

\* isNaN(parseInt(s)): s does not start with a digit
IsNaNParseInt(s) == Len(s) = 0 \/ s[1] \notin Digits

RECURSIVE ParseIntFrom(_, _, _)
\* parseInt(s) of a string that starts with a digit: the number its leading
\* digits write, whatever follows them
ParseIntFrom(s, i, acc) ==
  IF i > Len(s) \/ s[i] \notin Digits THEN acc
  ELSE ParseIntFrom(s, i + 1, acc * 10 + DigitValue(s[i]))

ParseInt(s) == ParseIntFrom(s, 1, 0)

\* SafeFields without the whitelist
SafeFields_All(fields) == fields.entries

\* the entries of req.body.fields whose key is whitelisted
SafeFields(fields) == { e \in fields.entries : e[1] \in EDITABLE_FIELDS }

\* !fields || typeof fields !== 'object' || !editedBy
InvalidBody(body) ==
  \/ body.fields.typeof = "undefined"
  \/ body.fields.typeof # "object"
  \/ Falsy(body.editedBy)

\* oldValue?.toString() ?? ''  and  newValue ?? ''
EditText(v) == IF v = Null THEN <<>> ELSE v

\* reason || ''
ReasonText(reason) == IF reason = Undefined THEN <<>> ELSE reason

\* the dischargeEdit row the handler creates for field k of request q
EditRecord(q, k) ==
  LET newValue == (CHOOSE e \in q.safeFields : e[1] = k)[2]
  IN  [dischargeId |-> q.id,
       fieldName |-> k,
       oldValue |-> EditText(q.discharge[k]),
       newValue |-> EditText(newValue),
       editedBy |-> q.body.editedBy,
       reason |-> ReasonText(q.body.reason)]

\* the fields for which the map over safeFields returns a create, not null
ChangedFields(safeFields, discharge) ==
  { e[1] : e \in { x \in safeFields : discharge[x[1]] # x[2] } }

\* prisma.discharge.update({ where: { id }, data: safeFields })
UpdatedRow(row, safeFields) ==
  [k \in DOMAIN row |->
     IF \E e \in safeFields : e[1] = k
     THEN (CHOOSE e \in safeFields : e[1] = k)[2]
     ELSE row[k]]

(***************************************************************************)
(* Requests                                                                *)
(***************************************************************************)
\* the clients, each with one PATCH request
Requests == { "r1", "r2" }

Editor(r) == IF r = "r1" THEN <<"a","n","n">> ELSE <<"b","o","b">>

\* the stored row of discharge 1, with phone p
StoredRow(p) ==
  [k \in DischargeFields |->
     IF k = "patientName" THEN <<"D","o","e">>
     ELSE IF k = "phoneNumber" THEN p
     ELSE IF k = "status" THEN <<"P","E","N","D","I","N","G","_","R","E","V","I","E","W">>
     ELSE <<"x">>]

StoredPhones == { Null, <<"5","5","5">> }

\* req.body.fields as an object: its entries, at most one per key
FieldObjects ==
  { n \cup p \cup s :
      n \in { {}, {<<"patientName", <<"D","o","e">>>>}, {<<"patientName", <<"R","o","e">>>>} },
      p \in { {}, {<<"phoneNumber", Null>>}, {<<"phoneNumber", <<>> >>},
              {<<"phoneNumber", <<"5","5","5">>>>} },
      s \in { {}, {<<"status", <<"A","P","P","R","O","V","E","D">>>>} } }

NoFields == [typeof |-> "undefined", entries |-> {}]

StringFields == [typeof |-> "string", entries |-> {}]

\* the requests client r may send: a path parameter and a body
RequestsOf(r) ==
  { [params |-> <<"1">>,
     body |-> [fields |-> [typeof |-> "object", entries |-> o],
               editedBy |-> Editor(r), reason |-> Undefined]] : o \in FieldObjects }
  \cup
  { [params |-> i,
     body |-> [fields |-> [typeof |-> "object", entries |-> {<<"patientName", <<"R","o","e">>>>}],
               editedBy |-> Editor(r), reason |-> <<"t","y","p","o">>]] : i \in { <<"1">>, <<"2">>, <<"x">>, <<"1","x">> } }
  \cup
  { [params |-> <<"1">>, body |-> [fields |-> f, editedBy |-> e, reason |-> Undefined]] :
      f \in { NoFields, StringFields,
              [typeof |-> "object", entries |-> {<<"patientName", <<"R","o","e">>>>}] },
      e \in { <<>>, Editor(r) } }

\* a request slot before its request arrives
IdleRequest ==
  [pc |-> "idle", params |-> <<>>,
   body |-> [fields |-> NoFields, editedBy |-> <<>>, reason |-> Undefined],
   id |-> 0, safeFields |-> {}, discharge |-> StoredRow(Null), todo |-> {}, status |-> 0]

(***************************************************************************)
(* Inputs                                                                  *)
(***************************************************************************)
\* the most lines of a multi-line input text
MaxLines == 3

\* the text before the identifier
NameParts == { <<>>, <<"D","o","e",","," ","J","o","h","n">>, <<"R","o","e"," ","0","1","-","0","2","-","2","0","2","4"," ">> }

\* the identifier anchor, well-formed or not
IdParts == { <<"E","P","1","2","3","4","5","6","7","8","9">>, <<"X","Y","1","2","3","4","5","6","7","8","9">>, <<"E","P","1","2","3","4","5","6","7","8">> }

\* what follows the identifier
PhoneParts == { <<>>, <<"5","5","5","-","8","6","7","-","5","3","0","9">>, <<"2","0","2","5","5","5","1","2","3","4">>, <<" ","2","0","2","5","5","5","1","2","3","4"," ">>, <<" ","(","M","i","s","s","i","n","g",")"," ">> }

AttendingParts == { <<>>, <<"S","l","o","a","n",","," ","M","D"," ","M","a","r","k">>, <<"d","e"," ","V","r","i","e","s",","," ","P","A","-","C"," ","A","l"," ">> }

DateParts == { <<>>, <<"0","1","-","1","5","-","2","0","2","5">> }

\* the PCP + payer span
MiddleParts ==
  { <<>>, <<"G","r","e","y",","," ","M","e","r","e","d","i","t","h"," ","M","D"," ","B","C","B","S">>, <<"(","m","i","s","s","i","n","g",")"," ","A","e","t","n","a"," ","H","e","a","l","t","h">>, <<"S","t","e","v","e","n","s",","," ","M","D"," ","I","z","z","i","e">>,
    <<"H","o","m","e","F","i","r","s","t"," ","P","l","a","n">> }

\* the end of the line
DispositionParts == { <<>>, <<"H","o","m","e">>, <<" ","S","N","F">> }

\* single-line texts: one row put together from one choice per part
RowLines ==
  { n \o i \o p \o a \o d \o m \o o :
      n \in NameParts, i \in IdParts, p \in PhoneParts, a \in AttendingParts,
      d \in DateParts, m \in MiddleParts, o \in DispositionParts }

\* lines of multi-line texts: blanks, titles and rows, plain or from a table
PoolLines ==
  { <<" "," ","\t"," ">>,
    <<"G","e","n","e","r","a","l"," ","H","o","s","p","i","t","a","l"," ","D","i","s","c","h","a","r","g","e","s"," ","f","o","r"," ","J","a","n"," ","1","s","t",","," ","2","0","2","4">>,
    <<"H","O","S","P","I","T","A","L"," ","D","I","S","C","H","A","R","G","E","S">>,
    <<"D","o","e",","," ","J","a","n","e","E","P","1","1","1","2","2","2","3","3","3","0","1","-","0","1","-","2","0","2","4","H","o","m","e">>,
    <<"B","a","c","o","n",","," ","C","h","r","i","s"," ","|"," ","E","P","0","0","1","2","3","7","6","5","4"," ","|"," ","4","0","4","7","2","7","1","2","3","4"," ","|"," ","S","l","o","a","n",","," ","M","D"," ","M","a","r","k"," ","|"," ","0","7","-","0","4","-","2","0","2","3"," ","|"," ","S","e","l","f"," ","P","a","y"," ","|"," "," ","S","N","F">> }

RECURSIVE TextsOf(_)
\* the texts of exactly n pool lines
TextsOf(n) ==
  IF n = 0 THEN { <<>> }
  ELSE IF n = 1 THEN PoolLines
  ELSE { t \o <<"\n">> \o l : t \in TextsOf(n - 1), l \in PoolLines }

Inputs == RowLines \cup UNION { TextsOf(n) : n \in 0..MaxLines }

\* provider names handed to normalizeProviderName
ProviderNames ==
  { s \o p \o c \o g :
      s \in { <<"S","l","o","a","n">>, <<" ","T","r","a","n">> },
      p \in { <<","," ">>, <<",">>, <<" ",","," "," ">> },
      c \in { <<>>, <<"M","D">>, <<"p","a","-","c">>, <<"D","r">>, <<"R","N"," ">> },
      g \in { <<>>, <<" ","M","a","r","k">>, <<" ","D","o"," ","M","i","n","h">>, <<" ","M","a","r","k"," ","M","D"," ">> } }

\* no pair of texts under comparison
JoinIdle ==
  /\ left = <<>>
  /\ right = <<>>
  /\ leftResult = Null
  /\ rightResult = Null

\* the discharges API at rest: empty tables, no request
ApiIdle ==
  /\ discharges = <<>>
  /\ dischargeEdits = <<>>
  /\ patch = <<>>

(***************************************************************************)
(* Behaviour: one call of parseDischargeText                               *)
(***************************************************************************)
Init ==
  /\ ApiIdle
  /\ JoinIdle
  /\ text \in Inputs
  /\ pc = "call"
  /\ result = Null
  /\ raw = <<>>
  /\ once = Null
  /\ twice = Null

ParseDischargeText ==
  /\ pc = "call"
  /\ result' = parseDischargeText(text)
  /\ pc' = "returned"
  /\ UNCHANGED <<text, raw, once, twice>>
  /\ UNCHANGED apiVars
  /\ UNCHANGED joinVars

Next == ParseDischargeText

Spec == Init /\ [][Next]_vars

(***************************************************************************)
(* Behaviour: normalizeProviderName applied to a name, then to its result  *)
(***************************************************************************)
InitNormalize ==
  /\ ApiIdle
  /\ JoinIdle
  /\ raw \in ProviderNames
  /\ pc = "name"
  /\ once = Null
  /\ twice = Null
  /\ text = <<>>
  /\ result = Null

NormalizeOnce ==
  /\ pc = "name"
  /\ once' = normalizeProviderName(raw)
  /\ pc' = "once"
  /\ UNCHANGED <<text, result, raw, twice>>
  /\ UNCHANGED apiVars
  /\ UNCHANGED joinVars

NormalizeTwice ==
  /\ pc = "once"
  /\ twice' = normalizeProviderName(once)
  /\ pc' = "twice"
  /\ UNCHANGED <<text, result, raw, once>>
  /\ UNCHANGED apiVars
  /\ UNCHANGED joinVars

NextNormalize == NormalizeOnce \/ NormalizeTwice

SpecNormalize == InitNormalize /\ [][NextNormalize]_vars

(***************************************************************************)
(* Behaviour: splitPcpAndInsurance applied to a trimmed PCP + payer span   *)
(***************************************************************************)
SpanPcpParts ==
  { <<>>, <<"G","r","e","y",","," ","M","e","r","e","d","i","t","h"," ","M","D">>, <<"(","m","i","s","s","i","n","g",")">>, <<"P","a","m","e","l","a"," ","I","s","l","e","y">>, <<"S","t","e","v","e","n","s",","," ","m","d"," ","I","z","z","i","e">>, <<"D","o","c">> }

SpanGaps == { <<>>, <<" ">> }

SpanPayerParts ==
  { <<>>, <<"A","e","t","n","a">>, <<"A","e","t","n","a"," ","H","e","a","l","t","h">>, <<"U","n","i","t","e","d","H","e","a","l","t","h","c","a","r","e">>, <<"H","u","m","a","n","a"," ","H","e","a","l","t","h">>, <<"S","e","l","f","-","P","a","y">>,
    <<"B","C","B","S"," ","M","e","d","i","c","a","r","e">>, <<"M","e","d","i","c","a","i","d"," ","M","e","d","i","c","a","r","e">>, <<"H","o","m","e","F","i","r","s","t"," ","P","l","a","n">>, <<"K","a","i","s","e","r","i","n">> }

\* the spans handed to splitPcpAndInsurance: beforeDisposition.trim()
Spans == { Trim(p \o g \o y) : p \in SpanPcpParts, g \in SpanGaps, y \in SpanPayerParts }

InitSplit ==
  /\ ApiIdle
  /\ JoinIdle
  /\ raw \in Spans
  /\ pc = "span"
  /\ once = Null
  /\ twice = Null
  /\ text = <<>>
  /\ result = Null

SplitSpan ==
  /\ pc = "span"
  /\ once' = splitPcpAndInsurance(raw)
  /\ pc' = "split"
  /\ UNCHANGED <<text, result, raw, twice>>
  /\ UNCHANGED apiVars
  /\ UNCHANGED joinVars

NextSplit == SplitSpan

SpecSplit == InitSplit /\ [][NextSplit]_vars

(***************************************************************************)
(* Behaviour: PATCH requests, one step per database call                   *)
(***************************************************************************)
InitPatch ==
  /\ text = <<>>
  /\ pc = "api"
  /\ result = Null
  /\ raw = <<>>
  /\ once = Null
  /\ twice = Null
  /\ discharges \in { [i \in {1} |-> StoredRow(p)] : p \in StoredPhones }
  /\ dischargeEdits = <<>>
  /\ patch = [r \in Requests |-> IdleRequest]
  /\ JoinIdle

\* the handler up to its first await: the checks of the request and the whitelist
PatchReceive(r) ==
  /\ pc = "api"
  /\ patch[r].pc = "idle"
  /\ \E req \in RequestsOf(r) :
       LET safeFields == SafeFields(req.body.fields)
           rejected == \/ IsNaNParseInt(req.params)
                       \/ InvalidBody(req.body)
                       \/ safeFields = {}
       IN  patch' = [patch EXCEPT ![r] =
             [@ EXCEPT !.params = req.params,
                       !.body = req.body,
                       !.id = IF IsNaNParseInt(req.params) THEN 0 ELSE ParseInt(req.params),
                       !.safeFields = IF rejected THEN {} ELSE safeFields,
                       !.status = IF rejected THEN 400 ELSE 0,
                       !.pc = IF rejected THEN "done" ELSE "find"]]
  /\ UNCHANGED <<text, pc, result, raw, once, twice, discharges, dischargeEdits>>
  /\ UNCHANGED joinVars

\* prisma.discharge.findUnique, the 404, and the map that decides the edits
PatchFindUnique(r) ==
  /\ pc = "api"
  /\ patch[r].pc = "find"
  /\ IF patch[r].id \notin DOMAIN discharges
     THEN patch' = [patch EXCEPT ![r] = [@ EXCEPT !.status = 404, !.pc = "done"]]
     ELSE LET discharge == discharges[patch[r].id]
              todo == ChangedFields(patch[r].safeFields, discharge)
          IN  patch' = [patch EXCEPT ![r] =
                [@ EXCEPT !.discharge = discharge,
                          !.todo = todo,
                          !.pc = IF todo = {} THEN "update" ELSE "edits"]]
  /\ UNCHANGED <<text, pc, result, raw, once, twice, discharges, dischargeEdits>>
  /\ UNCHANGED joinVars

\* one prisma.dischargeEdit.create of Promise.all, in the order the database takes them
PatchCreateEdit(r) ==
  /\ pc = "api"
  /\ patch[r].pc = "edits"
  /\ \E k \in patch[r].todo :
       /\ dischargeEdits' = Append(dischargeEdits, EditRecord(patch[r], k))
       /\ patch' = [patch EXCEPT ![r] =
            [@ EXCEPT !.todo = @ \ {k},
                      !.pc = IF patch[r].todo = {k} THEN "update" ELSE "edits"]]
  /\ UNCHANGED <<text, pc, result, raw, once, twice, discharges>>
  /\ UNCHANGED joinVars

\* prisma.discharge.update and the response
PatchUpdate(r) ==
  /\ pc = "api"
  /\ patch[r].pc = "update"
  /\ discharges' = [discharges EXCEPT ![patch[r].id] = UpdatedRow(@, patch[r].safeFields)]
  /\ patch' = [patch EXCEPT ![r] = [@ EXCEPT !.status = 200, !.pc = "done"]]
  /\ UNCHANGED <<text, pc, result, raw, once, twice, dischargeEdits>>
  /\ UNCHANGED joinVars

NextPatch ==
  \E r \in Requests :
     \/ PatchReceive(r)
     \/ PatchFindUnique(r)
     \/ PatchCreateEdit(r)
     \/ PatchUpdate(r)

SpecPatch == InitPatch /\ [][NextPatch]_vars


(***************************************************************************)
(* Behaviour: parseDischargeText applied to two texts and to the two       *)
(* joined by a line break                                                  *)
(***************************************************************************)
\* texts of zero, one or two lines: headers, rows, blank lines, and lines that
\* break off inside an identifier, a table cell or a row
JoinTexts ==
  { <<>>,
    <<"G","e","n","e","r","a","l"," ","H","o","s","p","i","t","a","l"," ","D","i","s","c","h","a","r","g","e","s"," ","f","o","r"," ","J","a","n"," ","1","s","t",","," ","2","0","2","4">>,
    <<"M","e","r","c","y"," ","H","o","s","p","i","t","a","l"," ","D","i","s","c","h","a","r","g","e","s"," ","f","o","r"," ","M","a","y"," ","1","s","t","\n","D","o","e",","," ","J","a","n","e","E","P","1","1","1","2","2","2","3","3","3","0","1","-","0","1","-","2","0","2","4","H","o","m","e">>,
    <<"D","o","e",","," ","J","a","n","e","E","P","1","1","1","2","2","2","3","3","3","0","1","-","0","1","-","2","0","2","4","H","o","m","e","\n">>,
    <<" "," ","\t"," ","\n","E","P","1","2","3","4","5","6","7","8","9">>,
    <<"R","o","e"," ","E","P","1","2","3","4","5">>,
    <<"6","7","8","9"," ","5","5","5","-","8","6","7","-","5","3","0","9"," ","S","l","o","a","n",","," ","M","D"," ","M","a","r","k","0","1","-","1","5","-","2","0","2","5","B","C","B","S","H","o","m","e">>,
    <<"D","o","e",","," ","J","o","h","n"," ","E","P","1","2","3","4","5","6","7","8","9"," ","2","0","2","5","5","5","1","2","3","4"," ","|">>,
    <<"|"," ","S","l","o","a","n",","," ","M","D"," ","M","a","r","k"," ","|"," ","0","1","-","1","5","-","2","0","2","5"," ","|"," ","A","e","t","n","a"," ","|"," ","S","N","F">>,
    <<"0","1","-","1","5","-","2","0","2","5"," ","M","e","d","i","c","a","r","e"," ","H","o","m","e">>,
    <<"Y","u"," ","|"," ","E","P","0","0","1","2","3","7","6","5","4"," ","|"," ","4","0","4","7","2","7","1","2","3","4"," ","|"," ","H","u",","," ","M","D"," ","A","l"," ","|"," ","0","7","-","0","4","-","2","0","2","3"," ","|"," ","C","i","g","n","a"," ","|"," "," ","S","N","F">> }

InitJoin ==
  /\ ApiIdle
  /\ left \in JoinTexts
  /\ right \in JoinTexts
  /\ text = left \o <<"\n">> \o right
  /\ pc = "pair"
  /\ leftResult = Null
  /\ rightResult = Null
  /\ result = Null
  /\ raw = <<>>
  /\ once = Null
  /\ twice = Null

\* the text the next call is made on: the first, then the second, then the
\* two joined
NextText == IF pc = "pair" THEN left ELSE IF pc = "left" THEN right ELSE text

\* the result of that call kept beside the others
KeepResult(parsed) ==
  /\ leftResult' = IF pc = "pair" THEN parsed ELSE leftResult
  /\ rightResult' = IF pc = "left" THEN parsed ELSE rightResult
  /\ result' = IF pc = "right" THEN parsed ELSE result
  /\ pc' = IF pc = "pair" THEN "left" ELSE IF pc = "left" THEN "right" ELSE "joined"

\* one call of parseDischargeText
ParseNextText ==
  /\ pc \in {"pair", "left", "right"}
  /\ KeepResult(parseDischargeText(NextText))
  /\ UNCHANGED <<text, raw, once, twice, left, right>>
  /\ UNCHANGED apiVars

NextJoin == ParseNextText

SpecJoin == InitJoin /\ [][NextJoin]_vars
(***************************************************************************)
(* Properties.  Those of parseDischargeText speak of the state after the   *)
(* call has returned; confidence values are in thousandths.                *)
(***************************************************************************)
Returned == pc = "returned"

\* whether "EP" and nine digits occur in s at some offset
EpNineDigits(s) ==
  \E i \in 0..(Len(s) - 11) :
     /\ s[i + 1] = "E"
     /\ s[i + 2] = "P"
     /\ \A k \in 3..11 : s[i + k] \in Digits

\* whether two uppercase letters and nine digits occur in s at some offset
TwoLettersNineDigits(s) ==
  \E i \in 0..(Len(s) - 11) :
     /\ s[i + 1] \in UpperSet
     /\ s[i + 2] \in UpperSet
     /\ \A k \in 3..11 : s[i + k] \in Digits

\* whether a line of the raw text holds both header markers
HasMarkerLine(t) ==
  \E j \in 1..Len(Split(t, "\n")) :
     LET l == ToLowerCase(Split(t, "\n")[j])
     IN  Includes(l, <<"h","o","s","p","i","t","a","l">>) /\ Includes(l, <<"d","i","s","c","h","a","r","g","e","s">>)

RecordFields ==
  { "patientName", "epicId", "phoneNumber", "attendingPhysician", "dischargeDate",
    "primaryCareProvider", "insurance", "disposition", "confidence", "rawText" }

\* C1: for every input text, the empty and the whitespace-only ones included, what
\* parseDischargeText returns is a ParseResult that carries the input; a text with
\* no data line gives no records, and a text with no header line gives
\* "Unknown Hospital" and an empty report date.
C1_Total ==
  Returned =>
    /\ DOMAIN result = { "hospitalName", "reportDate", "records", "rawText" }
    /\ result.rawText = text
    /\ \A k \in 1..Len(result.records) : DOMAIN result.records[k] = RecordFields
    /\ ~EpNineDigits(text) => Len(result.records) = 0
    /\ ~HasMarkerLine(text) =>
         result.hospitalName = UnknownHospital /\ result.reportDate = <<>>

\* a whitespace-only text was parsed to no records and the default header
C1_Witness ==
  /\ Returned
  /\ Len(text) > 0
  /\ \A i \in 1..Len(text) : text[i] \in Whitespace \cup {"\n"}
  /\ Len(result.records) = 0
  /\ result.hospitalName = UnknownHospital
  /\ result.reportDate = <<>>

\* whether some record was extracted from line l
ProducesRecord(l) == \E k \in 1..Len(result.records) : result.records[k].rawText = l

\* C2 as stated: a normalized line produces a record if and only if it holds two
\* uppercase letters immediately followed by nine digits.
C2_AnyLetters ==
  Returned =>
    LET lines == NormalizedLines(text)
    IN  \A j \in 1..Len(lines) : TwoLettersNineDigits(lines[j]) <=> ProducesRecord(lines[j])

\* C2, amended: a normalized line produces a record if and only if it holds the
\* letters "EP" immediately followed by nine digits (more digits may follow).
C2_AnchorGate ==
  Returned =>
    LET lines == NormalizedLines(text)
    IN  \A j \in 1..Len(lines) : EpNineDigits(lines[j]) <=> ProducesRecord(lines[j])

\* a text of which one line produced a record and another line was left out
C2_Witness ==
  /\ Returned
  /\ LET lines == NormalizedLines(text)
     IN  /\ \E j \in 1..Len(lines) : EpNineDigits(lines[j]) /\ ProducesRecord(lines[j])
         /\ \E j \in 1..Len(lines) : ~EpNineDigits(lines[j]) /\ ~ProducesRecord(lines[j])

\* 1.0 less the penalties of the fields record r reports missing, floored at 0
PenaltiesOfReport(r) ==
  LET c == 1000 - (IF r.epicId = <<>> THEN 200 ELSE 0)
                - (IF r.dischargeDate = <<>> THEN 200 ELSE 0)
                - (IF r.patientName = Unknown THEN 200 ELSE 0)
                - (IF r.disposition = Unknown THEN 100 ELSE 0)
                - (IF r.phoneNumber = Null THEN 100 ELSE 0)
                - (IF r.primaryCareProvider = Null THEN 100 ELSE 0)
                - (IF r.insurance = Unknown THEN 100 ELSE 0)
  IN  IF c > 0 THEN c ELSE 0

\* C3: every record's confidence is 1.0 less the fixed penalties of the fields the
\* record reports missing (0.1 for a payer reported as "Unknown"), floored at 0.
C3_ConfidenceOfReport ==
  Returned =>
    \A k \in 1..Len(result.records) :
       result.records[k].confidence = PenaltiesOfReport(result.records[k])

\* C4: every record's confidence lies between 0.0 and 1.0 and is a whole number
\* of hundredths.
C4_ConfidenceBounds ==
  Returned =>
    \A k \in 1..Len(result.records) :
       /\ result.records[k].confidence >= 0
       /\ result.records[k].confidence <= 1000
       /\ result.records[k].confidence % 10 = 0

\* a record with every field found, at the upper bound, beside none: confidence 1.0
C4_Witness ==
  /\ Returned
  /\ \E k \in 1..Len(result.records) :
        /\ result.records[k].confidence = 1000
        /\ result.records[k].phoneNumber # Null
        /\ result.records[k].primaryCareProvider # Null

\* the offset just after the identifier of data line l
AfterId(l) == EpicIdAt(l) + 11

\* whether NNN-NNN-NNNN stands in l at offset e
PhoneTextAt(l, e) ==
  /\ e + 12 <= Len(l)
  /\ \A k \in {1, 2, 3, 5, 6, 7, 9, 10, 11, 12} : l[e + k] \in Digits
  /\ l[e + 4] = "-"
  /\ l[e + 8] = "-"

\* whether ten digits stand in l at offset e
TenDigitsAt(l, e) ==
  /\ e + 10 <= Len(l)
  /\ \A k \in 1..10 : l[e + k] \in Digits

\* the ten digits of l at offset e, regrouped DDD-DDD-DDDD
Regrouped(l, e) ==
  << l[e + 1], l[e + 2], l[e + 3], "-", l[e + 4], l[e + 5], l[e + 6], "-",
     l[e + 7], l[e + 8], l[e + 9], l[e + 10] >>

DispositionSet == { DISPOSITIONS[i] : i \in 1..Len(DISPOSITIONS) }

\* whether line l ends with the text v
IsSuffix(v, l) == Len(v) <= Len(l) /\ SubSeq(l, Len(l) - Len(v) + 1, Len(l)) = v

\* C6: every record's disposition is a vocabulary value or "Unknown"; it is the
\* value V exactly when the trimmed line ends with V, and "Unknown", with a
\* confidence below 1.0, exactly when the line ends with no vocabulary value.
C6_OutcomeClosure ==
  Returned =>
    \A k \in 1..Len(result.records) :
       LET r == result.records[k]
           l == Trim(r.rawText)
       IN  /\ r.disposition \in DispositionSet \cup {Unknown}
           /\ \A v \in DispositionSet : r.disposition = v <=> IsSuffix(v, l)
           /\ r.disposition = Unknown <=> (\A v \in DispositionSet : ~IsSuffix(v, l))
           /\ r.disposition = Unknown => r.confidence < 1000

\* a record whose line holds a vocabulary value, but not at its end
C6_Witness ==
  /\ Returned
  /\ \E k \in 1..Len(result.records) :
        /\ result.records[k].disposition = Unknown
        /\ result.records[k].confidence < 1000
        /\ Includes(result.records[k].rawText, <<"H","o","m","e">>)

\* C7: normalizeProviderName is idempotent: normalising a normalised name
\* changes nothing.
C7_Idempotent == pc = "twice" => twice = once

PayerSet == { INSURANCE_PATTERNS[i] : i \in 1..Len(INSURANCE_PATTERNS) }

\* the trimmed text of record r's line between its date and its disposition
PayerSpan(r) ==
  LET l == r.rawText
      d == DateMatchAt(l)
      cut == IF r.disposition = Unknown THEN 0 ELSE Len(r.disposition)
  IN  Trim(SubSeq(l, d + 11, Len(l) - cut))

\* C8 as stated: every record's payer is a vocabulary entry or "Unknown".
C8_VocabularyOnly ==
  Returned =>
    \A k \in 1..Len(result.records) :
       result.records[k].insurance \in PayerSet \cup {Unknown}

\* C8, amended: every record's payer is a vocabulary entry, or "Unknown", or the
\* whole trimmed PCP+payer span of a line whose span holds no vocabulary entry
\* and no whole-word credential.
C8_PayerClosure ==
  Returned =>
    \A k \in 1..Len(result.records) :
       LET r == result.records[k]
       IN  \/ r.insurance \in PayerSet \cup {Unknown}
           \/ /\ r.dischargeDate # <<>>
              /\ r.insurance = PayerSpan(r)
              /\ \A v \in PayerSet : ~Includes(PayerSpan(r), v)
              /\ ~LooksLikeName(PayerSpan(r))

\* a record whose payer is the free text of its span
C8_Witness ==
  /\ Returned
  /\ \E k \in 1..Len(result.records) :
        /\ result.records[k].insurance \notin PayerSet \cup {Unknown}
        /\ result.records[k].insurance = PayerSpan(result.records[k])

\* whether p is a phone written NNN-NNN-NNNN
IsPhoneText(p) == Len(p) = 12 /\ PhoneTextAt(p, 0)

\* C9: every record's phoneNumber is null or a text NNN-NNN-NNNN, and its
\* primaryCareProvider is null or a non-empty text without "missing" in any
\* letter case; neither is the empty string.
C9_AbsenceIsNull ==
  Returned =>
    \A k \in 1..Len(result.records) :
       LET r == result.records[k]
       IN  /\ r.phoneNumber # <<>>
           /\ r.phoneNumber = Null \/ IsPhoneText(r.phoneNumber)
           /\ r.primaryCareProvider # <<>>
           /\ r.primaryCareProvider = Null
                \/ ~Includes(ToLowerCase(r.primaryCareProvider), <<"m","i","s","s","i","n","g">>)

\* a record whose line marks both the phone and the PCP as missing
C9_Witness ==
  /\ Returned
  /\ \E k \in 1..Len(result.records) :
        LET r == result.records[k]
        IN  /\ r.phoneNumber = Null
            /\ r.primaryCareProvider = Null
            /\ MatchesAtCI(r.rawText, AfterId(r.rawText), <<" ","(","m","i","s","s","i","n","g",")">>)
            /\ MatchesAtCI(PayerSpan(r), 0, <<"(","m","i","s","s","i","n","g",")">>)

\* whether the (normalized) line h is  <g1> Discharges for <g2>  with g1 its first
\* k characters: one blank between the words, any letter case
HeaderSplitsAt(h, k) ==
  /\ k >= 1
  /\ Len(h) >= k + 17
  /\ h[k + 1] \in Whitespace
  /\ MatchesAtCI(h, k + 1, <<"d","i","s","c","h","a","r","g","e","s">>)
  /\ h[k + 12] \in Whitespace
  /\ MatchesAtCI(h, k + 12, <<"f","o","r">>)
  /\ h[k + 16] \in Whitespace

\* C10: only the first normalized line holding both "hospital" and "discharges"
\* (any letter case) counts.  When it reads <facility> Discharges for <date>,
\* hospitalName and reportDate are the two parts, the facility being the
\* shortest that fits; when there is no such line, or the first one does not read
\* so, they are "Unknown Hospital" and "", whatever the later lines hold.
C10_Header ==
  Returned =>
    LET lines == NormalizedLines(text)
        marked == {j \in 1..Len(lines) :
                     /\ Includes(ToLowerCase(lines[j]), <<"h","o","s","p","i","t","a","l">>)
                     /\ Includes(ToLowerCase(lines[j]), <<"d","i","s","c","h","a","r","g","e","s">>)}
    IN  IF marked = {}
        THEN result.hospitalName = UnknownHospital /\ result.reportDate = <<>>
        ELSE LET first == lines[Min(marked)]
                 ks == {k \in 1..Len(first) : HeaderSplitsAt(first, k)}
             IN  IF ks = {}
                 THEN result.hospitalName = UnknownHospital /\ result.reportDate = <<>>
                 ELSE /\ result.hospitalName = Trim(SubSeq(first, 1, Min(ks)))
                      /\ result.reportDate = Trim(SubSeq(first, Min(ks) + 17, Len(first)))

\* the first marked line does not read as a header, a later line does, and the
\* defaults were returned
C10_Witness ==
  /\ Returned
  /\ result.hospitalName = UnknownHospital
  /\ result.reportDate = <<>>
  /\ LET lines == NormalizedLines(text)
     IN  \E j \in 1..Len(lines) : \E k \in 1..Len(lines[j]) : HeaderSplitsAt(lines[j], k)

\* the data lines of the input: its lines that hold an identifier, in the order
\* of the input, each normalized
DataLinesOf(t) ==
  LET split == Split(t, "\n")
      data == SelectSeq(split, EpNineDigits)
  IN  [i \in 1..Len(data) |-> NormalizeLine(data[i])]

\* C11: records holds one record per data line, in the order of the input, the
\* i-th record's rawText being the i-th normalized data line; the other lines
\* contribute nothing.
C11_RecordPerDataLine ==
  Returned =>
    LET data == DataLinesOf(text)
    IN  /\ Len(result.records) = Len(data)
        /\ \A i \in 1..Len(data) : result.records[i].rawText = data[i]

\* two different data lines with a title between them gave two records, the
\* second from a line of a table
C11_Witness ==
  /\ Returned
  /\ Len(result.records) = 2
  /\ result.records[1].rawText # result.records[2].rawText
  /\ \E i \in 1..Len(text) : text[i] = "|"
  /\ LET lines == NormalizedLines(text)
     IN  /\ Len(lines) = 3
         /\ lines[2] # result.records[1].rawText
         /\ lines[2] # result.records[2].rawText

CredentialSet == { CREDENTIALS[i] : i \in 1..Len(CREDENTIALS) }

\* the ways to read the trimmed name x as  <Surname>, <CREDENTIAL> <GivenName(s)>:
\* <<surname, credential, given names>> with blanks after the comma and after
\* the credential, the credential in any letter case
WrongOrderReadings(x) ==
  { <<SubSeq(x, 1, k - 1), SubSeq(x, a, b), SubSeq(x, g, Len(x))>> :
      <<k, a, b, g>> \in
        { q \in (1..Len(x)) \X (1..Len(x)) \X (1..Len(x)) \X (1..Len(x)) :
            /\ q[1] > 1 /\ q[1] < q[2] - 1 /\ q[2] <= q[3] /\ q[3] < q[4] - 1
            /\ x[q[1]] = ","
            /\ \A i \in 1..(q[1] - 1) : x[i] # ","
            /\ \A i \in (q[1] + 1)..(q[2] - 1) : x[i] \in Whitespace
            /\ ToUpperCase(SubSeq(x, q[2], q[3])) \in CredentialSet
            /\ \A i \in (q[3] + 1)..(q[4] - 1) : x[i] \in Whitespace
            /\ x[q[4]] \notin Whitespace } }

\* whether the trimmed name x ends with a credential as a word of its own
CredentialTrails(x) ==
  \E c \in CredentialSet :
     /\ Len(x) > Len(c)
     /\ ToUpperCase(SubSeq(x, Len(x) - Len(c) + 1, Len(x))) = c
     /\ x[Len(x) - Len(c)] \in Whitespace

\* what C12 says of one application of normalizeProviderName, from x to y
RewritesAsStated(x, y) ==
  LET t == Trim(x)
      readings == WrongOrderReadings(t)
  IN  /\ \A r \in readings : y = r[1] \o <<","," ">> \o r[3] \o <<" ">> \o ToUpperCase(r[2])
      /\ readings = {} => y = t
      /\ CredentialTrails(t) => y = t

\* C12: normalizeProviderName rewrites every name of the form
\* <Surname>, <CREDENTIAL> <GivenName(s)> to <Surname>, <GivenName(s)> <CREDENTIAL>
\* (uppercased) and returns every other name trimmed, so that a name whose
\* credential already trails is left as it is.
C12_RewriteOrUntouched ==
  /\ pc \in {"once", "twice"} => RewritesAsStated(raw, once)
  /\ pc = "twice" => RewritesAsStated(once, twice)

\* the offset of the first identifier of line l (a data line has one)
FirstIdOffset(l) ==
  Min({i \in 0..(Len(l) - 11) :
         l[i + 1] = "E" /\ l[i + 2] = "P" /\ \A k \in 3..11 : l[i + k] \in Digits})

\* C13: every record's patientName is the text of its line before the first
\* identifier, trimmed; when that text is empty, patientName is "Unknown" and the
\* confidence is 0.2 below that of the same line with a name put before it.
C13_PatientName ==
  Returned =>
    \A k \in 1..Len(result.records) :
       LET r == result.records[k]
           l == r.rawText
           before == Trim(SubSeq(l, 1, FirstIdOffset(l)))
       IN  IF before # <<>>
           THEN r.patientName = before
           ELSE /\ r.patientName = Unknown
                /\ r.confidence = parseDischargeRow(<<"D","o","e",","," ","J","o","h","n">> \o l).confidence - 200

\* a record without a name whose every other field was found: confidence 0.8
C13_Witness ==
  /\ Returned
  /\ \E k \in 1..Len(result.records) :
        /\ result.records[k].patientName = Unknown
        /\ result.records[k].confidence = 800
        /\ FirstIdOffset(result.records[k].rawText) = 0

\* whether NN-NN-NNNN stands in l at offset i
DateTextAt(l, i) ==
  /\ i + 10 <= Len(l)
  /\ \A k \in {1, 2, 4, 5, 7, 8, 9, 10} : l[i + k] \in Digits
  /\ l[i + 3] = "-"
  /\ l[i + 6] = "-"

\* the offsets after the identifier of l where a date stands
DatesAfterId(l) == {i \in AfterId(l)..(Len(l) - 10) : DateTextAt(l, i)}

\* C14: every record's dischargeDate is the first NN-NN-NNNN text that stands
\* after the identifier ('' when there is none); a date before the identifier
\* is never taken.
C14_DateAfterId ==
  Returned =>
    \A k \in 1..Len(result.records) :
       LET r == result.records[k]
           l == r.rawText
           after == DatesAfterId(l)
       IN  IF after = {}
           THEN r.dischargeDate = <<>>
           ELSE r.dischargeDate = SubSeq(l, Min(after) + 1, Min(after) + 10)

\* the text of line l after its identifier, blanks at its start aside
TextAfterId(l) ==
  LET a == SubSeq(l, AfterId(l) + 1, Len(l))
      first == {i \in 1..Len(a) : a[i] \notin Whitespace}
  IN  IF first = {} THEN <<>> ELSE SubSeq(a, Min(first), Len(a))

\* C15: the phone is decided from the text right after the identifier alone, by
\* three cases in order: the absence marker "(missing)" in any letter case, no
\* phone; NNN-NNN-NNNN, that phone; ten digits followed by whitespace or by a
\* letter, those digits regrouped; in every other case, no phone.
C15_PhoneCases ==
  Returned =>
    \A k \in 1..Len(result.records) :
       LET r == result.records[k]
           b == TextAfterId(r.rawText)
       IN  IF MatchesAtCI(b, 0, <<"(","m","i","s","s","i","n","g",")">>) THEN r.phoneNumber = Null
           ELSE IF PhoneTextAt(b, 0) THEN r.phoneNumber = SubSeq(b, 1, 12)
           ELSE IF /\ TenDigitsAt(b, 0)
                   /\ Len(b) > 10
                   /\ b[11] \in Whitespace \cup UpperSet \cup LowerSet
           THEN r.phoneNumber = Regrouped(b, 0)
           ELSE r.phoneNumber = Null

\* the number of characters after the identifier of r's line that the phone step
\* matched: the absence marker or the phone text, with the blanks before it
PhoneSkip(r) ==
  LET l == r.rawText
      a == SubSeq(l, AfterId(l) + 1, Len(l))
      w == Len(a) - Len(TextAfterId(l))
      b == TextAfterId(l)
  IN  IF MatchesAtCI(b, 0, <<"(","m","i","s","s","i","n","g",")">>) THEN w + 9
      ELSE IF r.phoneNumber = Null THEN 0
      ELSE IF PhoneTextAt(b, 0) THEN w + 12
      ELSE w + 10

\* the offset where the date of record r starts in its line
DateOffset(r) ==
  Min({i \in 0..(Len(r.rawText) - 10) : SubSeq(r.rawText, i + 1, i + 10) = r.dischargeDate})

\* the text of r's line from the phone/identifier boundary up to the date
AttendingSpan(r) ==
  SubSeq(r.rawText, AfterId(r.rawText) + PhoneSkip(r) + 1, DateOffset(r))

\* C16: in every record with an identifier and a date, attendingPhysician is the
\* normalized form of the trimmed text between the phone/identifier boundary
\* (right after the identifier when neither a phone nor the absence marker
\* matched, right after the matched text otherwise) and the start of the date; it
\* holds neither the identifier nor the phone text nor the date.
C16_AttendingSpan ==
  Returned =>
    \A k \in 1..Len(result.records) :
       LET r == result.records[k]
       IN  (r.epicId # <<>> /\ r.dischargeDate # <<>>) =>
             /\ r.attendingPhysician = normalizeProviderName(Trim(AttendingSpan(r)))
             /\ ~Includes(r.attendingPhysician, r.epicId)
             /\ ~Includes(r.attendingPhysician, r.dischargeDate)
             /\ r.phoneNumber # Null =>
                  ~Includes(r.attendingPhysician,
                            SubSeq(r.rawText, AfterId(r.rawText) + 1,
                                   AfterId(r.rawText) + PhoneSkip(r)))

\* the payer-vocabulary entries that occur in span s
PayersIn(s) == { v \in PayerSet : Includes(s, v) }

\* the offset of the first occurrence of v in s (v occurs in s)
FirstOffset(s, v) == Min({i \in 0..(Len(s) - Len(v)) : SubSeq(s, i + 1, i + Len(v)) = v})

\* C17: when the span holds a payer-vocabulary entry, the payer is an entry of
\* the greatest length among those that occur in it, and the PCP is the text
\* before that entry's first occurrence, trimmed, absent when empty.
C17_LongestPayer ==
  (pc = "split" /\ PayersIn(raw) # {}) =>
     LET before == Trim(SubSeq(raw, 1, FirstOffset(raw, once.ins)))
     IN  /\ once.ins \in PayersIn(raw)
         /\ \A v \in PayersIn(raw) : Len(v) <= Len(once.ins)
         /\ once.pcp = IF before = <<>> THEN Null ELSE before

\* a span holding "Aetna" and "Aetna Health" after a name was split at the longer
C17_Witness ==
  /\ pc = "split"
  /\ { <<"A","e","t","n","a">>, <<"A","e","t","n","a"," ","H","e","a","l","t","h">> } \subseteq PayersIn(raw)
  /\ once.ins = <<"A","e","t","n","a"," ","H","e","a","l","t","h">>
  /\ once.pcp # Null

\* whether one of MD, DO, PA, NP, RN stands in s as a word of its own, in any
\* letter case
HasCredentialWord(s) ==
  \E c \in { <<"M","D">>, <<"D","O">>, <<"P","A">>, <<"N","P">>, <<"R","N">> } : \E i \in 1..(Len(s) - 1) :
     /\ i + 1 <= Len(s)
     /\ ToUpperCase(SubSeq(s, i, i + 1)) = c
     /\ i = 1 \/ s[i - 1] \notin WordChars
     /\ i + 1 = Len(s) \/ s[i + 2] \notin WordChars

\* C18: when the span holds no payer-vocabulary entry: if one of MD, DO, PA, NP,
\* RN stands in it as a whole word (any letter case), the whole span is the PCP
\* and the payer is "Unknown"; otherwise the PCP is absent and the payer is the
\* whole span, or "Unknown" when the span is empty.
C18_Fallback ==
  (pc = "split" /\ PayersIn(raw) = {}) =>
     IF HasCredentialWord(raw)
     THEN once.pcp = raw /\ once.ins = Unknown
     ELSE once.pcp = Null /\ once.ins = (IF raw = <<>> THEN Unknown ELSE raw)

\* a span with the letters of a credential inside a word only became the payer
C18_Witness ==
  /\ pc = "split"
  /\ PayersIn(raw) = {}
  /\ \E i \in 1..(Len(raw) - 1) : ToUpperCase(SubSeq(raw, i, i + 1)) = <<"P","A">>
  /\ ~HasCredentialWord(raw)
  /\ once.pcp = Null
  /\ once.ins = raw

\* whether c is a character that normalisation never removes
Solid(c) == c \notin Whitespace \cup {"|"}

\* whether line l holds anything but whitespace and delimiters
HasContent(l) == \E i \in 1..Len(l) : Solid(l[i])

\* C19: the lines handed on are the lines of the input in their order, without
\* those that normalisation empties; each is non-empty, starts and ends with no
\* whitespace, and holds neither a "|" nor two whitespace characters in a row.
C19_NormalizedLines ==
  Returned =>
    LET lines == NormalizedLines(text)
        kept == SelectSeq(Split(text, "\n"), HasContent)
    IN  /\ Len(lines) = Len(kept)
        /\ \A j \in 1..Len(lines) :
              LET l == lines[j]
              IN  /\ SelectSeq(l, Solid) = SelectSeq(kept[j], Solid)
                  /\ Len(l) > 0
                  /\ l[1] \notin Whitespace
                  /\ l[Len(l)] \notin Whitespace
                  /\ \A i \in 1..Len(l) : l[i] # "|"
                  /\ \A i \in 1..(Len(l) - 1) :
                        ~(l[i] \in Whitespace /\ l[i + 1] \in Whitespace)
        /\ \A k \in 1..Len(result.records) :
              \E j \in 1..Len(lines) : result.records[k].rawText = lines[j]

\* a text with a whitespace-only line and, after it, a row of a table with
\* delimiters and doubled blanks, which gave a record
C19_Witness ==
  /\ Returned
  /\ Len(result.records) > 0
  /\ LET split == Split(text, "\n")
     IN  /\ Len(split) >= 2
         /\ ~HasContent(split[1])
         /\ \E j \in 2..Len(split) : \E i \in 1..(Len(split[j]) - 2) :
               /\ split[j][i] = "|"
               /\ split[j][i + 1] \in Whitespace
               /\ split[j][i + 2] \in Whitespace

\* the edit records, as <<field, old value, new value>>, that client r's request
\* has created
EditsOf(r) ==
  { i \in 1..Len(dischargeEdits) : dischargeEdits[i].editedBy = Editor(r) }

\* the whitelisted entries of r's request whose value differs from the row the
\* handler read
ChangedEntries(r) ==
  { e \in patch[r].body.fields.entries :
      e[1] \in EDITABLE_FIELDS /\ patch[r].discharge[e[1]] # e[2] }

\* C20 as stated: a successful PATCH has created exactly one edit record for each
\* whitelisted field whose requested value differs from the stored one, with
\* oldValue the stored value and newValue the requested value, and none else;
\* fields outside the whitelist are neither recorded nor modified.
C20_StoredAndRequested ==
  pc = "api" =>
    /\ \A r \in Requests :
         patch[r].status = 200 =>
           /\ { <<dischargeEdits[i].fieldName, dischargeEdits[i].oldValue,
                  dischargeEdits[i].newValue>> : i \in EditsOf(r) }
                = { <<e[1], patch[r].discharge[e[1]], e[2]>> : e \in ChangedEntries(r) }
           /\ Cardinality(EditsOf(r)) = Cardinality(ChangedEntries(r))
    /\ \A i \in 1..Len(dischargeEdits) : dischargeEdits[i].fieldName \in EDITABLE_FIELDS
    /\ \A i \in DOMAIN discharges : discharges[i]["status"] = <<"P","E","N","D","I","N","G","_","R","E","V","I","E","W">>

\* C20, amended: the same, with oldValue and newValue the stored and the
\* requested value as text, an absent (null) value being recorded as ''; the
\* stored value is the one the handler read.
C20_EditLineage ==
  pc = "api" =>
    /\ \A r \in Requests :
         patch[r].status = 200 =>
           /\ { <<dischargeEdits[i].fieldName, dischargeEdits[i].oldValue,
                  dischargeEdits[i].newValue>> : i \in EditsOf(r) }
                = { <<e[1], IF patch[r].discharge[e[1]] = Null
                            THEN <<>> ELSE patch[r].discharge[e[1]],
                      IF e[2] = Null THEN <<>> ELSE e[2]>> : e \in ChangedEntries(r) }
           /\ Cardinality(EditsOf(r)) = Cardinality(ChangedEntries(r))
    /\ \A i \in 1..Len(dischargeEdits) : dischargeEdits[i].fieldName \in EDITABLE_FIELDS
    /\ \A i \in DOMAIN discharges : discharges[i]["status"] = <<"P","E","N","D","I","N","G","_","R","E","V","I","E","W">>

\* a successful request that named an unchanged field, a changed one and one
\* outside the whitelist, and created one edit record
C20_Witness ==
  /\ pc = "api"
  /\ \E r \in Requests :
        /\ patch[r].status = 200
        /\ \E e \in patch[r].body.fields.entries : e[1] = "status"
        /\ \E e \in patch[r].body.fields.entries :
              e[1] = "patientName" /\ patch[r].discharge["patientName"] = e[2]
        /\ \E e \in ChangedEntries(r) : e[1] = "phoneNumber"
        /\ Cardinality(EditsOf(r)) = 1


C22_LineLocal ==
  pc = "joined" =>
    /\ result.records = leftResult.records \o rightResult.records
    /\ \A k \in 1..Len(result.records) :
          result.records[k] = parseDischargeRow(result.records[k].rawText)

\* both texts gave records, the joined text has a header that one of the two
\* texts alone has not, and the joined text's records are more than either's
C22_Witness ==
  /\ pc = "joined"
  /\ Len(leftResult.records) >= 1
  /\ Len(rightResult.records) >= 1
  /\ Len(result.records) = Len(leftResult.records) + Len(rightResult.records)
  /\ leftResult.hospitalName = UnknownHospital
  /\ result.hospitalName # UnknownHospital

\* the step in which request r's prisma.discharge.update is applied
UpdateApplied(r) ==
  /\ patch[r].pc = "update"
  /\ patch'[r].pc = "done"

\* every request has been answered
AllCompleted == \A r \in Requests : patch[r].pc = "done"

\* the edit records of field f, in the order they were created
EditsOfField(f) == { i \in 1..Len(dischargeEdits) : dischargeEdits[i].fieldName = f }

\* C23: under any interleaving of concurrent PATCH requests on one discharge, the
\* edit records of each field form a consistent chain: each edit record's oldValue
\* is the value (as text) the field held immediately before its request's update
\* was applied, and once all requests have completed the newValue of a field's
\* last edit record is the field's stored value (as text).
C23_ConsistentChain ==
  /\ [][ pc = "api" =>
           \A r \in Requests :
              UpdateApplied(r) =>
                \A i \in EditsOf(r) :
                   dischargeEdits[i].oldValue
                     = EditText(discharges[patch[r].id][dischargeEdits[i].fieldName]) ]_vars
  /\ []( (pc = "api" /\ AllCompleted) =>
           \A f \in EDITABLE_FIELDS :
              EditsOfField(f) # {} =>
                \A i \in DOMAIN discharges :
                   dischargeEdits[Max(EditsOfField(f))].newValue
                     = EditText(discharges[i][f]) )
====
